---------------------------- MODULE Spec2Model ----------------------------
(***************************************************************************)
(* Shamir's Secret Sharing over GF(2^8) (package sss): the field           *)
(* arithmetic, the polynomial engine, the sequential and the pooled split  *)
(* variants, and Combine / CombineParallel.                                *)
(*                                                                         *)
(* A split call is modelled as the goroutine that runs it: pc is its       *)
(* position in the code, and every loop iteration that reads the random    *)
(* source, evaluates a polynomial or talks to a channel is one step.       *)
(***************************************************************************)
EXTENDS Integers, Sequences, FiniteSets, TLC

(***************************************************************************)
(* Bounds of the model.                                                    *)
(***************************************************************************)
MaxN == 3        \* share counts 0..MaxN are explored, and the boundary 255
MaxK == 3        \* thresholds 0..MaxK
MaxLen == 2      \* secrets of 0..MaxLen bytes
MaxRnd == 4      \* the random source delivers at most MaxRnd bytes
MaxOver == 0     \* appends allowed to a share beyond the byte being split
MaxLenWide == 1  \* secrets of 0..MaxLenWide bytes when n = 255
MaxRndWide == 2  \* the random source delivers at most MaxRndWide bytes then

(***************************************************************************)
(* Program constants.                                                      *)
(***************************************************************************)
ByteMod == 256   \* Go's byte is 8 bits wide: arithmetic on it is mod 256

Byte == 0 .. (ByteMod - 1)
ByteMax == ByteMod - 1
SecretBytes == {0, 202}
RandBytes == {0, 1, 2}

\* byte arithmetic
inc8(a) == (a + 1) % ByteMod
sub8(a, b) == (a - b + ByteMod) % ByteMod

(***************************************************************************)
(* The field GF(2^8).  xor is Go's ^ on bytes, nibble by nibble.           *)
(***************************************************************************)
xorNibble ==
  <<
    << 0, 1, 2, 3, 4, 5, 6, 7, 8, 9, 10, 11, 12, 13, 14, 15 >>,
    << 1, 0, 3, 2, 5, 4, 7, 6, 9, 8, 11, 10, 13, 12, 15, 14 >>,
    << 2, 3, 0, 1, 6, 7, 4, 5, 10, 11, 8, 9, 14, 15, 12, 13 >>,
    << 3, 2, 1, 0, 7, 6, 5, 4, 11, 10, 9, 8, 15, 14, 13, 12 >>,
    << 4, 5, 6, 7, 0, 1, 2, 3, 12, 13, 14, 15, 8, 9, 10, 11 >>,
    << 5, 4, 7, 6, 1, 0, 3, 2, 13, 12, 15, 14, 9, 8, 11, 10 >>,
    << 6, 7, 4, 5, 2, 3, 0, 1, 14, 15, 12, 13, 10, 11, 8, 9 >>,
    << 7, 6, 5, 4, 3, 2, 1, 0, 15, 14, 13, 12, 11, 10, 9, 8 >>,
    << 8, 9, 10, 11, 12, 13, 14, 15, 0, 1, 2, 3, 4, 5, 6, 7 >>,
    << 9, 8, 11, 10, 13, 12, 15, 14, 1, 0, 3, 2, 5, 4, 7, 6 >>,
    << 10, 11, 8, 9, 14, 15, 12, 13, 2, 3, 0, 1, 6, 7, 4, 5 >>,
    << 11, 10, 9, 8, 15, 14, 13, 12, 3, 2, 1, 0, 7, 6, 5, 4 >>,
    << 12, 13, 14, 15, 8, 9, 10, 11, 4, 5, 6, 7, 0, 1, 2, 3 >>,
    << 13, 12, 15, 14, 9, 8, 11, 10, 5, 4, 7, 6, 1, 0, 3, 2 >>,
    << 14, 15, 12, 13, 10, 11, 8, 9, 6, 7, 4, 5, 2, 3, 0, 1 >>,
    << 15, 14, 13, 12, 11, 10, 9, 8, 7, 6, 5, 4, 3, 2, 1, 0 >>
  >>

xor(a, b) ==
    16 * xorNibble[(a \div 16) + 1][(b \div 16) + 1]
       + xorNibble[(a % 16) + 1][(b % 16) + 1]

\* exp[i + 1] = g^i for the generator g = 3 of the field with the modulus
\* x^8 + x^4 + x^3 + x + 1; log[a] is the inverse table, for a in 1..255.
exp ==
  <<
    1, 3, 5, 15, 17, 51, 85, 255, 26, 46, 114, 150, 161, 248, 19, 53, 95,
    225, 56, 72, 216, 115, 149, 164, 247, 2, 6, 10, 30, 34, 102, 170, 229,
    52, 92, 228, 55, 89, 235, 38, 106, 190, 217, 112, 144, 171, 230, 49, 83,
    245, 4, 12, 20, 60, 68, 204, 79, 209, 104, 184, 211, 110, 178, 205, 76,
    212, 103, 169, 224, 59, 77, 215, 98, 166, 241, 8, 24, 40, 120, 136, 131,
    158, 185, 208, 107, 189, 220, 127, 129, 152, 179, 206, 73, 219, 118,
    154, 181, 196, 87, 249, 16, 48, 80, 240, 11, 29, 39, 105, 187, 214, 97,
    163, 254, 25, 43, 125, 135, 146, 173, 236, 47, 113, 147, 174, 233, 32,
    96, 160, 251, 22, 58, 78, 210, 109, 183, 194, 93, 231, 50, 86, 250, 21,
    63, 65, 195, 94, 226, 61, 71, 201, 64, 192, 91, 237, 44, 116, 156, 191,
    218, 117, 159, 186, 213, 100, 172, 239, 42, 126, 130, 157, 188, 223,
    122, 142, 137, 128, 155, 182, 193, 88, 232, 35, 101, 175, 234, 37, 111,
    177, 200, 67, 197, 84, 252, 31, 33, 99, 165, 244, 7, 9, 27, 45, 119,
    153, 176, 203, 70, 202, 69, 207, 74, 222, 121, 139, 134, 145, 168, 227,
    62, 66, 198, 81, 243, 14, 18, 54, 90, 238, 41, 123, 141, 140, 143, 138,
    133, 148, 167, 242, 13, 23, 57, 75, 221, 124, 132, 151, 162, 253, 28,
    36, 108, 180, 199, 82, 246
  >>

log ==
  <<
    0, 25, 1, 50, 2, 26, 198, 75, 199, 27, 104, 51, 238, 223, 3, 100, 4,
    224, 14, 52, 141, 129, 239, 76, 113, 8, 200, 248, 105, 28, 193, 125,
    194, 29, 181, 249, 185, 39, 106, 77, 228, 166, 114, 154, 201, 9, 120,
    101, 47, 138, 5, 33, 15, 225, 36, 18, 240, 130, 69, 53, 147, 218, 142,
    150, 143, 219, 189, 54, 208, 206, 148, 19, 92, 210, 241, 64, 70, 131,
    56, 102, 221, 253, 48, 191, 6, 139, 98, 179, 37, 226, 152, 34, 136, 145,
    16, 126, 110, 72, 195, 163, 182, 30, 66, 58, 107, 40, 84, 250, 133, 61,
    186, 43, 121, 10, 21, 155, 159, 94, 202, 78, 212, 172, 229, 243, 115,
    167, 87, 175, 88, 168, 80, 244, 234, 214, 116, 79, 174, 233, 213, 231,
    230, 173, 232, 44, 215, 117, 122, 235, 22, 11, 245, 89, 203, 95, 176,
    156, 169, 81, 160, 127, 12, 246, 111, 23, 196, 73, 236, 216, 67, 31, 45,
    164, 118, 123, 183, 204, 187, 62, 90, 251, 96, 177, 134, 59, 82, 161,
    108, 170, 85, 41, 157, 151, 178, 135, 144, 97, 190, 220, 252, 188, 149,
    207, 205, 55, 63, 91, 209, 83, 57, 132, 60, 65, 162, 109, 71, 20, 42,
    158, 93, 86, 242, 211, 171, 68, 17, 146, 217, 35, 32, 46, 137, 180, 124,
    184, 38, 119, 153, 227, 165, 103, 74, 237, 222, 197, 49, 254, 24, 13,
    99, 140, 128, 192, 247, 112, 7
  >>

FieldOrder == 255    \* the multiplicative group of GF(2^8) has 255 elements

mul(a, b) ==
    IF a = 0 \/ b = 0 THEN 0
    ELSE exp[((log[a] + log[b]) % FieldOrder) + 1]

\* div(a, 0) fails loudly: DivPanic stands for the panic.
DivPanic == -1

div(a, b) ==
    IF b = 0 THEN DivPanic
    ELSE IF a = 0 THEN 0
    ELSE exp[((log[a] - log[b] + FieldOrder) % FieldOrder) + 1]

(***************************************************************************)
(* The polynomial engine.  A polynomial is the sequence of its             *)
(* coefficients; Go's p[j] is p[j + 1] here.                               *)
(***************************************************************************)
RECURSIVE evalLoop(_, _, _, _)
evalLoop(p, x, i, result) ==
    IF i > Len(p) THEN result
    ELSE evalLoop(p, x, i + 1, xor(mul(result, x), p[Len(p) - i + 1]))

\* The loop takes the coefficients from the constant term upwards.
evalLowFirst(p, x) ==
    evalLoop([j \in 1 .. Len(p) |-> p[Len(p) - j + 1]], x, 1, 0)

eval(p, x) == evalLoop(p, x, 1, 0)

\* One term of the Lagrange weight of point i: the factors over j # i.
RECURSIVE weightLoop(_, _, _, _, _)
weightLoop(points, x, i, j, weight) ==
    IF j > Len(points) THEN weight
    ELSE IF i = j THEN weightLoop(points, x, i, j + 1, weight)
    ELSE LET top == xor(x, points[j].x)
             bottom == xor(points[i].x, points[j].x)
             factor == div(top, bottom)
         IN  IF factor = DivPanic THEN DivPanic
             ELSE weightLoop(points, x, i, j + 1, mul(weight, factor))

RECURSIVE interpolateLoop(_, _, _, _)
interpolateLoop(points, x, i, value) ==
    IF i > Len(points) THEN value
    ELSE LET weight == weightLoop(points, x, i, 1, 1)
         IN  IF weight = DivPanic THEN DivPanic
             ELSE interpolateLoop(points, x, i + 1,
                                  xor(value, mul(weight, points[i].y)))

\* The loop stops one point early.
interpolateDropLast(points, x) ==
    interpolateLoop(SubSeq(points, 1, Len(points) - 1), x, 1, 0)

interpolate(points, x) == interpolateLoop(points, x, 1, 0)

(***************************************************************************)
(* Maps (map[byte][]byte) are functions whose domain is the key set.       *)
(***************************************************************************)
EmptyMap == <<>>

MapGet(m, key) == IF key \in DOMAIN m THEN m[key] ELSE <<>>

MapPut(m, key, v) ==
    [y \in (DOMAIN m) \cup {key} |-> IF y = key THEN v ELSE m[y]]

Restrict(m, S) == [y \in S |-> m[y]]

\* The orders in which a range over a map may yield the keys S.
Perms(S) ==
    {f \in [1 .. Cardinality(S) -> S] : \A a \in S : \E j \in DOMAIN f : f[j] = a}

SeqsUpTo(S, m) == UNION {[1 .. l -> S] : l \in 0 .. m}

Zeros(l) == [j \in 1 .. l |-> 0]

(***************************************************************************)
(* State.                                                                  *)
(***************************************************************************)
VARIABLES
    n, k, secret, cpus,      \* the arguments of the split call
    tape, rpos, closed,      \* the random source
    fn, pc,                  \* the function the caller runs, and where it is
    i, x, buf, p,            \* its locals
    shares,                  \* the share map being built
    count,                   \* SplitParallel: chunks sent and not yet received
    sendq, w,                \* the pool: work queues and worker states
    quit, wchan,             \* the shutdown channels, and the shutdown and
                             \* result channel each worker was started with
    ret,                     \* what the split call returned
    ref,                     \* what an earlier Split returned on this source
    cshares, ci, recovered,  \* Combine: its argument and its locals
    ncpu,                    \* runtime.NumCPU()
    newShares, indices,      \* CombineParallel: the shares as slices
    psecret,                 \* CombineParallel: its result
    gor,                     \* the CombineConcur goroutines alive
    units, placed            \* history: the chunks dispatched, in dispatch
                             \* order, and the results placed, in arrival order

args == <<n, k, secret, cpus>>
reader == <<tape, rpos, closed>>
locals == <<i, x, buf, p, shares, count>>
pool == <<sendq, w>>
ctl == <<quit, wchan>>
par == <<ncpu, newShares, indices, psecret, gor>>
hist == <<units, placed>>
comb == <<cshares, ci, recovered, par, hist>>
vars == <<args, reader, fn, pc, locals, pool, ctl, ret, ref, comb>>

Variants == {"Split", "SplitNew", "SplitNewConcur", "SplitParallel"}

NoRet == [nil |-> TRUE, shares |-> EmptyMap, err |-> "pending"]

(***************************************************************************)
(* The random source (rand.Reader behind io.ReadFull).  tape holds the     *)
(* bytes the source has delivered so far, rpos how many of them the        *)
(* running call has consumed; closed says that the source fails after the  *)
(* last byte of tape.  A second call on the same source reads the same     *)
(* bytes again from the start.                                             *)
(***************************************************************************)
SourceLimit == IF n = ByteMax THEN MaxRndWide ELSE MaxRnd

ReadFull(c) ==
    IF c = 0
    THEN {[ok |-> TRUE, data |-> <<>>, tape |-> tape, rpos |-> rpos,
           closed |-> closed]}
    ELSE IF rpos + c <= Len(tape)
    THEN {[ok |-> TRUE, data |-> SubSeq(tape, rpos + 1, rpos + c),
           tape |-> tape, rpos |-> rpos + c, closed |-> closed]}
    ELSE LET have == Len(tape) - rpos
             need == c - have
             room == SourceLimit - Len(tape)
         IN  IF closed
             THEN {[ok |-> FALSE, data |-> <<>>, tape |-> tape,
                    rpos |-> Len(tape), closed |-> TRUE]}
             ELSE {[ok |-> TRUE,
                    data |-> SubSeq(tape \o ext, rpos + 1, rpos + c),
                    tape |-> tape \o ext, rpos |-> rpos + c,
                    closed |-> FALSE] :
                      ext \in IF need <= room THEN [1 .. need -> RandBytes]
                              ELSE {}}
                  \cup
                  {[ok |-> FALSE, data |-> <<>>, tape |-> tape \o ext,
                    rpos |-> Len(tape) + Len(ext), closed |-> TRUE] :
                      ext \in SeqsUpTo(RandBytes,
                                       IF need - 1 <= room THEN need - 1
                                       ELSE room)}

TakeRead(o) ==
    /\ tape' = o.tape
    /\ rpos' = o.rpos
    /\ closed' = o.closed

(***************************************************************************)
(* Entry of every split variant: the parameter checks.                     *)
(***************************************************************************)
\* The threshold check lets k = 1 through.
checkParamsLax(nn, kk) ==
    IF kk < 1 THEN "ErrInvalidThreshold"
    ELSE IF nn < kk THEN "ErrInvalidCount"
    ELSE "nil"

checkParams(nn, kk) ==
    IF kk <= 1 THEN "ErrInvalidThreshold"
    ELSE IF nn < kk THEN "ErrInvalidCount"
    ELSE "nil"

\* Every return hands out the share map built so far.
ReturnShares(m, isNil, e) ==
    /\ pc' = "returned"
    /\ ret' = [nil |-> FALSE, shares |-> shares, err |-> e]

Return(m, isNil, e) ==
    /\ pc' = "returned"
    /\ ret' = [nil |-> isNil, shares |-> m, err |-> e]

FirstPc == [v \in Variants |->
              CASE v = "Split" -> "s_range"
                [] v = "SplitNew" -> "gr_bulk"
                [] v = "SplitNewConcur" -> "gr_bulk"
                [] v = "SplitParallel" -> "gp_bulk"]

\* A random byte is read before the parameters are checked.
EntryReadsFirst ==
    /\ pc = "entry"
    /\ \E o \in ReadFull(1) :
         /\ TakeRead(o)
         /\ LET e == checkParams(n, k)
            IN  IF e # "nil"
                THEN /\ Return(EmptyMap, TRUE, e)
                     /\ UNCHANGED shares
                ELSE /\ pc' = FirstPc[fn]
                     /\ shares' = EmptyMap
                     /\ UNCHANGED ret
    /\ UNCHANGED <<args, ctl, fn, i, x, buf, p, count, pool, ref, comb>>

Entry ==
    /\ pc = "entry"
    /\ LET e == checkParams(n, k)
       IN  IF e # "nil"
           THEN /\ Return(EmptyMap, TRUE, e)
                /\ UNCHANGED shares
           ELSE /\ pc' = FirstPc[fn]
                /\ shares' = EmptyMap
                /\ UNCHANGED ret
    /\ UNCHANGED <<args, ctl, reader, fn, i, x, buf, p, count, pool, ref, comb>>

(***************************************************************************)
(* Split: one polynomial per secret byte (generate), evaluated at 1..n.    *)
(***************************************************************************)
\* for _, b := range secret: generate's first read, of the degree-1 middle
\* coefficients; after the last byte, return shares.
SplitRange ==
    /\ pc = "s_range"
    /\ IF i < Len(secret)
       THEN \E o \in ReadFull(sub8(sub8(k, 1), 1)) :
              /\ TakeRead(o)
              /\ IF o.ok
                 THEN /\ buf' = o.data
                      /\ pc' = "s_lead"
                      /\ UNCHANGED ret
                 ELSE /\ Return(EmptyMap, TRUE, "ErrRandom")
                      /\ UNCHANGED buf
       ELSE /\ Return(shares, FALSE, "nil")
            /\ UNCHANGED <<reader, buf>>
    /\ UNCHANGED <<args, ctl, fn, i, x, p, shares, count, pool, ref, comb>>

\* The leading coefficient is left out of the polynomial.
generateResultShort(x0, mids, lead) == <<x0>> \o mids

\* generate's rejection loop: one byte per read until it is nonzero.
generateResult(x0, mids, lead) == <<x0>> \o mids \o <<lead>>

\* Any byte is taken as the leading coefficient.
isLeadingAny(b) == TRUE

\* if buf[0] != 0
isLeading(b) == b # 0

SplitLead ==
    /\ pc = "s_lead"
    /\ \E o \in ReadFull(1) :
         /\ TakeRead(o)
         /\ IF ~o.ok
            THEN /\ Return(EmptyMap, TRUE, "ErrRandom")
                 /\ UNCHANGED <<p, x>>
            ELSE IF isLeading(o.data[1])
            THEN /\ p' = generateResult(secret[i + 1], buf, o.data[1])
                 /\ x' = 1
                 /\ pc' = "s_eval"
                 /\ UNCHANGED ret
            ELSE UNCHANGED <<p, x, pc, ret>>
    /\ UNCHANGED <<args, ctl, fn, i, buf, shares, count, pool, ref, comb>>

\* The share is stored under x - 1.
appendShareBelow(m, xx, b) ==
    MapPut(m, sub8(xx, 1), Append(MapGet(m, sub8(xx, 1)), b))

\* shares[x] = append(shares[x], b)
appendShare(m, xx, b) == MapPut(m, xx, Append(MapGet(m, xx), b))

\* for x := byte(1); x <= n; x++ { shares[x] = append(shares[x], eval(p, x)) }
SplitEval ==
    /\ pc = "s_eval"
    /\ IF x <= n
       THEN /\ Len(MapGet(shares, x)) <= i + MaxOver
            /\ shares' = appendShare(shares, x, eval(p, x))
            /\ x' = inc8(x)
            /\ UNCHANGED <<i, pc>>
       ELSE /\ i' = i + 1
            /\ pc' = "s_range"
            /\ UNCHANGED <<shares, x>>
    /\ UNCHANGED <<args, ctl, reader, fn, buf, p, count, pool, ret, ref, comb>>

(***************************************************************************)
(* generateRand: all k * len(secret) random bytes in one read, k per       *)
(* secret byte; slot 0 of a row is then the secret byte, and the last slot *)
(* is read again, one byte at a time, while it is zero.  buf is result.    *)
(***************************************************************************)
AfterGenRand == [v \in {"SplitNew", "SplitNewConcur"} |->
                   IF v = "SplitNew" THEN "sn_loop" ELSE "snc_send"]

GenRandBulk ==
    /\ pc = "gr_bulk"
    /\ \E o \in ReadFull(k * Len(secret)) :
         /\ TakeRead(o)
         /\ IF o.ok
            THEN /\ buf' = o.data
                 /\ i' = 0
                 /\ pc' = "gr_row"
                 /\ UNCHANGED ret
            ELSE /\ Return(EmptyMap, TRUE, "ErrRandom")
                 /\ UNCHANGED <<buf, i>>
    /\ UNCHANGED <<args, ctl, fn, x, p, shares, count, pool, ref, comb>>

\* One pass of the row loop: result[start] = b, then either the leading
\* slot is nonzero (next row) or it is read again.
GenRandRow ==
    /\ pc = "gr_row"
    /\ IF i = Len(secret)
       THEN /\ p' = buf
            /\ x' = 1
            /\ pc' = AfterGenRand[fn]
            /\ UNCHANGED <<reader, buf, i, ret>>
       ELSE LET start == i * k
                nextDegree == start + sub8(k, 1)
                row == [buf EXCEPT ![start + 1] = secret[i + 1]]
            IN  IF row[nextDegree + 1] # 0
                THEN /\ buf' = row
                     /\ i' = i + 1
                     /\ UNCHANGED <<reader, p, x, pc, ret>>
                ELSE \E o \in ReadFull(1) :
                       /\ TakeRead(o)
                       /\ IF o.ok
                          THEN /\ buf' = [row EXCEPT ![nextDegree + 1] = o.data[1]]
                               /\ UNCHANGED <<pc, ret>>
                          ELSE /\ Return(EmptyMap, TRUE, "ErrRandom")
                               /\ UNCHANGED buf
                       /\ UNCHANGED <<i, p, x>>
    /\ UNCHANGED <<args, ctl, fn, shares, count, pool, ref, comb>>

\* The rows are taken k - 1 apart.
ComputeShortStride(lenSecret, kk, nIndex, pp) ==
    [j \in 1 .. lenSecret |->
        eval(SubSeq(pp, (j - 1) * (kk - 1) + 1, (j - 1) * (kk - 1) + kk),
             nIndex)]

\* Compute: share nIndex, byte by byte, from the rows of pp.
Compute(lenSecret, kk, nIndex, pp) ==
    [j \in 1 .. lenSecret |->
        eval(SubSeq(pp, (j - 1) * kk + 1, (j - 1) * kk + kk), nIndex)]

(***************************************************************************)
(* SplitNew: for x := byte(1); x <= n; x++ { shares[x] = Compute(...) }    *)
(***************************************************************************)
SplitNewStep ==
    /\ pc = "sn_loop"
    /\ IF x <= n
       THEN /\ shares' = MapPut(shares, x, Compute(Len(secret), k, x, p))
            /\ x' = inc8(x)
            /\ UNCHANGED <<pc, ret>>
       ELSE /\ Return(shares, FALSE, "nil")
            /\ UNCHANGED <<shares, x>>
    /\ UNCHANGED <<args, ctl, reader, fn, i, buf, p, count, pool, ref, comb>>

(***************************************************************************)
(* SplitNewConcur on a pool of RunParallel workers: worker j serves the    *)
(* unbuffered channels sendChan[j-1] and resultChan[j-1].  A send on       *)
(* sendChan meets the worker's receive; the worker then holds the result   *)
(* of Compute until the dispatcher receives it.                            *)
(***************************************************************************)
Idle == [st |-> "idle", res |-> <<>>]

\* The result channel SplitParallel is called with.
callRet == 0

\* RunParallel worker j is started on sendChan[j-1], retChan[j-1] and the
\* one endChan; SplitParallelLoop worker j on send[j-1], ret and quit[j-1].
\* made: the channels of the worker were created with make (a nil channel
\* blocks every send and every receive for ever).
poolChans(v, size) ==
    [j \in 1 .. size |->
       IF v = "SplitNewConcur" THEN [quit |-> 1, ret |-> j, made |-> TRUE]
       ELSE [quit |-> j, ret |-> callRet, made |-> TRUE]]

\* The shutdown channels, empty.
poolQuit(v, size) ==
    [c \in IF v = "SplitNewConcur" THEN {1} ELSE 1 .. size |-> 0]

\* Go's index x-1 of a byte x, as an index from 1.
chanIndex(xx) == sub8(xx, 1) + 1

SplitNewConcurSend ==
    /\ pc = "snc_send"
    /\ IF x <= n
       THEN IF chanIndex(x) \notin DOMAIN w
            THEN /\ pc' = "panic"
                 /\ UNCHANGED <<x, w>>
            ELSE /\ w[chanIndex(x)].st = "idle"
                 /\ w' = [w EXCEPT ![chanIndex(x)] =
                            [st |-> "sending",
                             res |-> Compute(Len(secret), k, x, p)]]
                 /\ x' = inc8(x)
                 /\ UNCHANGED pc
       ELSE /\ x' = 1
            /\ pc' = "snc_recv"
            /\ UNCHANGED w
    /\ UNCHANGED <<args, ctl, reader, fn, i, buf, p, shares, count, sendq, ret,
                   ref, comb>>

SplitNewConcurRecv ==
    /\ pc = "snc_recv"
    /\ IF x <= n
       THEN IF chanIndex(x) \notin DOMAIN w
            THEN /\ pc' = "panic"
                 /\ UNCHANGED <<x, w, shares, ret>>
            ELSE /\ w[chanIndex(x)].st = "sending"
                 /\ shares' = MapPut(shares, x, w[chanIndex(x)].res)
                 /\ w' = [w EXCEPT ![chanIndex(x)] = Idle]
                 /\ x' = inc8(x)
                 /\ UNCHANGED <<pc, ret>>
       ELSE /\ Return(shares, FALSE, "nil")
            /\ UNCHANGED <<x, w, shares>>
    /\ UNCHANGED <<args, ctl, reader, fn, i, buf, p, count, sendq, ref, comb>>

(***************************************************************************)
(* generatePolys: one row of degree+1 coefficients per secret byte,        *)
(* degree * len(x) random bytes in one read, then one more read per row    *)
(* for the leading coefficient.  The row counter of the allocation loop    *)
(* and the index into buf are bytes.                                       *)
(***************************************************************************)
gpAllocated(xs) == Len(xs) % ByteMod

gpIndex(ii, degree, j) == ((ii % ByteMod) * degree + j - 1) % ByteMod

\* results[i][j] = buf[byte(i)*degree+j-1] indexes a row that was never
\* allocated, or past the end of buf.
gpPanics(degree, xs) ==
    \E ii \in 0 .. Len(xs) - 1 :
       \/ ii >= gpAllocated(xs)
       \/ \E j \in 1 .. degree : gpIndex(ii, degree, j) >= degree * Len(xs)

gpRows(degree, xs, data) ==
    [r \in 1 .. Len(xs) |->
       [c \in 1 .. degree + 1 |->
          IF c = 1 THEN xs[r] ELSE data[gpIndex(r - 1, degree, c - 1) + 1]]]

GenPolysBulk ==
    /\ pc = "gp_bulk"
    /\ LET degree == sub8(k, 1)
       IN  \E o \in ReadFull(degree * Len(secret)) :
             /\ TakeRead(o)
             /\ IF ~o.ok
                THEN /\ Return(EmptyMap, TRUE, "ErrRandom")
                     /\ UNCHANGED <<buf, i>>
                ELSE IF gpPanics(degree, secret)
                THEN /\ pc' = "panic"
                     /\ UNCHANGED <<buf, i, ret>>
                ELSE /\ buf' = gpRows(degree, secret, o.data)
                     /\ i' = 0
                     /\ pc' = "gp_lead"
                     /\ UNCHANGED ret
    /\ UNCHANGED <<args, ctl, fn, x, p, shares, count, pool, ref, comb>>

\* One read of the leading-coefficient loop for row i: a nonzero byte is
\* stored and the loop moves on; a zero byte, and a failed read, repeat
\* the row (i--; continue).
GenPolysLead ==
    /\ pc = "gp_lead"
    /\ IF i = Len(secret)
       THEN /\ p' = buf
            /\ i' = 0
            /\ count' = 0
            /\ pc' = "sp_dispatch"
            /\ UNCHANGED <<reader, buf>>
       ELSE \E o \in ReadFull(1) :
              /\ TakeRead(o)
              /\ IF o.ok /\ o.data[1] # 0
                 THEN /\ buf' = [buf EXCEPT ![i + 1][sub8(k, 1) + 1] = o.data[1]]
                      /\ i' = i + 1
                 ELSE UNCHANGED <<buf, i>>
              /\ UNCHANGED <<p, count, pc>>
    /\ UNCHANGED <<args, ctl, fn, x, shares, pool, ret, ref, comb>>

(***************************************************************************)
(* Pooled SplitParallel and its workers (SplitParallelLoop).  send[j] is   *)
(* a buffered channel, ret is unbuffered: a worker holds its result until  *)
(* the dispatcher receives it.                                             *)
(***************************************************************************)
SendCap == 1000

\* A chunk that runs one position into the next one.
chunkEndOverlap(start, cp, len) ==
    IF start + cp >= len THEN len - 1 ELSE start + cp

chunkEnd(start, cp, len) ==
    IF start + cp >= len THEN len - 1 ELSE start + cp - 1

SplitParallelDispatch ==
    /\ pc = "sp_dispatch"
    /\ IF i < Len(secret)
       THEN IF count + 1 \notin DOMAIN sendq
            THEN /\ pc' = "panic"
                 /\ UNCHANGED <<i, x, count, sendq, units>>
            ELSE LET e == chunkEnd(i, cpus, Len(secret))
                     m == [Polys |-> SubSeq(p, i + 1, e + 1),
                           Secrets |-> SubSeq(secret, i + 1, e + 1),
                           N |-> n, Start |-> i, End |-> e,
                           Ret |-> callRet]
                 IN  /\ wchan[count + 1].made
                     /\ Len(sendq[count + 1]) < SendCap
                     /\ sendq' = [sendq EXCEPT ![count + 1] = Append(@, m)]
                     /\ count' = count + 1
                     /\ i' = i + cpus
                     /\ units' = Append(units, [start |-> i,
                                                len |-> e - i + 1])
                     /\ UNCHANGED <<x, pc>>
       ELSE /\ x' = 1
            /\ pc' = "sp_make"
            /\ UNCHANGED <<i, count, sendq, units>>
    /\ UNCHANGED <<args, ctl, reader, fn, buf, p, shares, w, ret, ref, cshares, ci,
                   recovered, par, placed>>

\* for i := byte(1); i <= n; i++ { shares[i] = make([]byte, len(secret)) }
SplitParallelMake ==
    /\ pc = "sp_make"
    /\ IF x <= n
       THEN /\ shares' = MapPut(shares, x, Zeros(Len(secret)))
            /\ x' = inc8(x)
            /\ UNCHANGED pc
       ELSE /\ pc' = "sp_recv"
            /\ UNCHANGED <<shares, x>>
    /\ UNCHANGED <<args, ctl, reader, fn, i, buf, p, count, pool, ret, ref, comb>>

\* A placement that ignores the start index a result carries.
placeResultAtZero(m, res, nn) ==
    [j \in DOMAIN m |->
       IF j \in 1 .. nn
       THEN [pos \in DOMAIN m[j] |->
               IF pos - 1 < res.N THEN res.Shares[pos][j] ELSE m[j][pos]]
       ELSE m[j]]

\* shares[j][i+res.Index] = res.Shares[i][j-1] for j in 1..n, i < res.N
placeResult(m, res, nn) ==
    [j \in DOMAIN m |->
       IF j \in 1 .. nn
       THEN [pos \in DOMAIN m[j] |->
               IF pos - 1 >= res.Index /\ pos - 1 < res.Index + res.N
               THEN res.Shares[pos - res.Index][j]
               ELSE m[j][pos]]
       ELSE m[j]]

SplitParallelRecv ==
    /\ pc = "sp_recv"
    /\ IF count > 0
       THEN \E wi \in DOMAIN w :
              /\ w[wi].st = "sending"
              /\ wchan[wi].ret = callRet
              /\ shares' = placeResult(shares, w[wi].res, n)
              /\ w' = [w EXCEPT ![wi] = Idle]
              /\ count' = count - 1
              /\ placed' = Append(placed, [start |-> w[wi].res.Index,
                                            len |-> w[wi].res.N])
              /\ UNCHANGED <<pc, ret>>
       ELSE /\ Return(shares, FALSE, "nil")
            /\ UNCHANGED <<shares, w, count, placed>>
    /\ UNCHANGED <<args, ctl, reader, fn, i, x, buf, p, sendq, ref, cshares, ci,
                   recovered, par, units>>

\* The shares of one chunk: shares[i][x-1] = eval(m.Polys[i], x), x in 1..N
loopShares(m) ==
    [ii \in 1 .. Len(m.Secrets) |->
       [xx \in 1 .. m.N |-> eval(m.Polys[ii], xx)]]

\* A worker computes the chunk of the Input at the head of its queue and
\* leaves the Input there.
SplitParallelLoopKeep(wi) ==
    /\ w[wi].st = "idle"
    /\ wchan[wi].made
    /\ sendq[wi] # <<>>
    /\ pc # "panic"
    /\ w' = [w EXCEPT ![wi] =
                [st |-> "sending",
                 res |-> [Shares |-> loopShares(Head(sendq[wi])),
                          Index |-> Head(sendq[wi]).Start,
                          N |-> Len(Head(sendq[wi]).Secrets)]]]
    /\ UNCHANGED <<args, ctl, reader, fn, pc, locals, sendq, ret, ref, comb>>

\* A worker takes the next Input from its queue and computes the chunk.
\* With N = 255 its byte counter x wraps to 0 and shares[i][-1] panics.
SplitParallelLoop(wi) ==
    /\ w[wi].st = "idle"
    /\ wchan[wi].made
    /\ sendq[wi] # <<>>
    /\ pc # "panic"
    /\ LET m == Head(sendq[wi])
       IN  IF m.N = ByteMax /\ Len(m.Secrets) > 0
           THEN /\ pc' = "panic"
                /\ UNCHANGED <<sendq, w>>
           ELSE /\ w' = [w EXCEPT ![wi] =
                           [st |-> "sending",
                            res |-> [Shares |-> loopShares(m),
                                     Index |-> m.Start,
                                     N |-> Len(m.Secrets)]]]
                /\ sendq' = [sendq EXCEPT ![wi] = Tail(@)]
                /\ UNCHANGED pc
    /\ UNCHANGED <<args, ctl, reader, fn, locals, ret, ref, comb>>

(***************************************************************************)
(* The caller.  It builds the pool a variant needs before it calls it (as  *)
(* the benchmarks do), and may call a second variant with the arguments    *)
(* and the random bytes of a Split that succeeded.                         *)
(***************************************************************************)
MaxCpus == 2     \* chunk sizes 1..MaxCpus are passed to SplitParallel

CpusFor(v) == IF v = "SplitParallel" THEN 1 .. MaxCpus ELSE {0}

PoolSize(v, nn, sec, cp) ==
    CASE v = "SplitNewConcur" -> nn
      [] v = "SplitParallel" -> (Len(sec) \div cp) + 1
      [] OTHER -> 0

NewPool(v, nn, sec, cp) ==
    /\ w' = [j \in 1 .. PoolSize(v, nn, sec, cp) |-> Idle]
    /\ sendq' = [j \in 1 .. PoolSize(v, nn, sec, cp) |-> <<>>]
    /\ wchan' = poolChans(v, PoolSize(v, nn, sec, cp))
    /\ quit' = poolQuit(v, PoolSize(v, nn, sec, cp))

CallSame ==
    /\ pc = "returned"
    /\ fn = "Split"
    /\ ret.err = "nil"
    /\ \E v \in Variants \ {"Split"} :
         \E cp \in CpusFor(v) :
            /\ fn' = v
            /\ cpus' = cp
            /\ NewPool(v, n, secret, cp)
    /\ pc' = "entry"
    /\ rpos' = 0
    /\ ref' = ret
    /\ ret' = NoRet
    /\ i' = 0
    /\ x' = 0
    /\ buf' = <<>>
    /\ p' = <<>>
    /\ shares' = EmptyMap
    /\ count' = 0
    /\ UNCHANGED <<n, k, secret, tape, closed, comb>>

(***************************************************************************)
(* Combine.                                                                *)
(***************************************************************************)
\* The caller hands the shares it got to Combine: any non-empty subset of
\* what Split returned (Example3), all of what another variant returned
\* (BenchmarkNormalNew1, BenchmarkConcurNew1).
CallCombine ==
    /\ pc = "returned"
    /\ ret.err = "nil"
    /\ \E S \in SUBSET (DOMAIN ret.shares) :
         /\ S # {} \/ DOMAIN ret.shares = {}
         /\ fn # "Split" => S = DOMAIN ret.shares
         /\ cshares' = Restrict(ret.shares, S)
    /\ pc' = "c_entry"
    /\ UNCHANGED <<args, ctl, reader, fn, locals, pool, ret, ref, ci, recovered, par,
                   hist>>

\* secret = make([]byte, len(v)) for the first share the map yields.
CombineEntry ==
    /\ pc = "c_entry"
    /\ IF DOMAIN cshares = {}
       THEN recovered' = <<>>
       ELSE \E first \in DOMAIN cshares :
              recovered' = Zeros(Len(cshares[first]))
    /\ ci' = 0
    /\ pc' = "c_loop"
    /\ UNCHANGED <<args, ctl, reader, fn, locals, pool, ret, ref, cshares, par,
                   hist>>

\* Every point gets the ID of the first share.
pointsAtSameX(m, ord, pos) ==
    [j \in DOMAIN ord |-> [x |-> ord[1], y |-> m[ord[j]][pos + 1]]]

pointsAt(m, ord, pos) ==
    [j \in DOMAIN ord |-> [x |-> ord[j], y |-> m[ord[j]][pos + 1]]]

\* One byte position: the points in the order the map yields them, then
\* interpolate at 0.  v[i] panics on a share shorter than the first one.
CombineStep ==
    /\ pc = "c_loop"
    /\ ci < Len(recovered)
    /\ \E ord \in Perms(DOMAIN cshares) :
         IF \E key \in DOMAIN cshares : Len(cshares[key]) <= ci
         THEN /\ pc' = "panic"
              /\ UNCHANGED <<ci, recovered>>
         ELSE LET v == interpolate(pointsAt(cshares, ord, ci), 0)
              IN  IF v = DivPanic
                  THEN /\ pc' = "panic"
                       /\ UNCHANGED <<ci, recovered>>
                  ELSE /\ recovered' = [recovered EXCEPT ![ci + 1] = v]
                       /\ ci' = ci + 1
                       /\ UNCHANGED pc
    /\ UNCHANGED <<args, ctl, reader, fn, locals, pool, ret, ref, cshares, par,
                   hist>>

CombineReturn ==
    /\ pc = "c_loop"
    /\ ci = Len(recovered)
    /\ pc' = "c_returned"
    /\ UNCHANGED <<args, ctl, reader, fn, locals, pool, ret, ref, comb>>

(***************************************************************************)
(* The specification of a split call followed by Combine.                  *)
(***************************************************************************)
Secrets == SeqsUpTo(SecretBytes, MaxLen)

\* With n = 255 every share-ID loop runs 255 times per secret byte: there
\* the secret has at most MaxLenWide bytes.
Init ==
    /\ n \in (0 .. MaxN) \cup {ByteMax}
    /\ k \in 0 .. MaxK
    /\ secret \in Secrets
    /\ n = ByteMax => Len(secret) <= MaxLenWide
    /\ fn \in Variants
    /\ cpus \in CpusFor(fn)
    /\ w = [j \in 1 .. PoolSize(fn, n, secret, cpus) |-> Idle]
    /\ sendq = [j \in 1 .. PoolSize(fn, n, secret, cpus) |-> <<>>]
    /\ wchan = poolChans(fn, PoolSize(fn, n, secret, cpus))
    /\ quit = poolQuit(fn, PoolSize(fn, n, secret, cpus))
    /\ tape = <<>>
    /\ rpos = 0
    /\ closed = FALSE
    /\ pc = "entry"
    /\ i = 0
    /\ x = 0
    /\ buf = <<>>
    /\ p = <<>>
    /\ shares = EmptyMap
    /\ count = 0
    /\ ret = NoRet
    /\ ref = NoRet
    /\ cshares = EmptyMap
    /\ ci = 0
    /\ recovered = <<>>
    /\ ncpu = 1
    /\ newShares = <<>>
    /\ indices = <<>>
    /\ psecret = <<>>
    /\ gor = {}
    /\ units = <<>>
    /\ placed = <<>>

Next ==
    \/ Entry
    \/ SplitRange
    \/ SplitLead
    \/ SplitEval
    \/ GenRandBulk
    \/ GenRandRow
    \/ SplitNewStep
    \/ SplitNewConcurSend
    \/ SplitNewConcurRecv
    \/ GenPolysBulk
    \/ GenPolysLead
    \/ SplitParallelDispatch
    \/ SplitParallelMake
    \/ SplitParallelRecv
    \/ \E wi \in DOMAIN w : SplitParallelLoop(wi)
    \/ CallSame
    \/ CallCombine
    \/ CombineEntry
    \/ CombineStep
    \/ CombineReturn

Spec == Init /\ [][Next]_vars

(***************************************************************************)
(* CombineParallel: the byte positions in chunks of cpus, one              *)
(* CombineConcur goroutine per chunk, and the results placed in the order  *)
(* in which they arrive on ret.                                            *)
(***************************************************************************)
Headroom == 10     \* cpus := runtime.NumCPU() + 10

chunkSize == ncpu + Headroom

\* The caller runs CombineParallel on the map it gave to Combine.
CallCombineParallel ==
    /\ pc = "c_returned"
    /\ fn = "Combine"
    /\ fn' = "CombineParallel"
    /\ pc' = "cp_entry"
    /\ UNCHANGED <<args, ctl, reader, locals, pool, ret, ref, comb>>

\* The two ranges over the map: the first fills newShares and indices, the
\* first share the second one yields gives the length of secret.
CombineParallelEntry ==
    /\ pc = "cp_entry"
    /\ \E ord \in Perms(DOMAIN cshares) :
         /\ newShares' = [c \in DOMAIN ord |-> cshares[ord[c]]]
         /\ indices' = ord
    /\ IF DOMAIN cshares = {}
       THEN psecret' = <<>>
       ELSE \E first \in DOMAIN cshares :
              psecret' = Zeros(Len(cshares[first]))
    /\ i' = 0
    /\ count' = 0
    /\ pc' = "cp_spawn"
    /\ UNCHANGED <<args, ctl, reader, fn, x, buf, p, shares, pool, ret, ref,
                   cshares, ci, recovered, ncpu, gor, hist>>

chunkLen(start, cp, len) == IF start + cp >= len THEN len - start ELSE cp

\* share[j][k] = newShares[k][i+j]
chunkOf(ns, start, l) ==
    [j \in 1 .. l |-> [c \in DOMAIN ns |-> ns[c][start + j]]]

\* newShares[k][i+j] is out of range for a share shorter than secret.
chunkPanics(ns, start, l) == \E c \in DOMAIN ns : Len(ns[c]) < start + l

\* One pass of the chunk loop: go CombineConcur(share, i, indices, ret).
CombineParallelSpawn ==
    /\ pc = "cp_spawn"
    /\ IF i < Len(psecret)
       THEN LET l == chunkLen(i, chunkSize, Len(psecret))
            IN  IF chunkPanics(newShares, i, l)
                THEN /\ pc' = "panic"
                     /\ UNCHANGED <<i, count, gor, units>>
                ELSE /\ gor' = gor \cup {[shares |-> chunkOf(newShares, i, l),
                                          index |-> i, st |-> "running",
                                          secret |-> <<>>]}
                     /\ count' = count + 1
                     /\ i' = i + chunkSize
                     /\ units' = Append(units, [start |-> i, len |-> l])
                     /\ UNCHANGED pc
       ELSE /\ pc' = "cp_recv"
            /\ UNCHANGED <<i, count, gor, units>>
    /\ UNCHANGED <<args, ctl, reader, fn, x, buf, p, shares, pool, ret, ref,
                   cshares, ci, recovered, ncpu, newShares, indices, psecret,
                   placed>>

\* points[j] = pair{x: byte(indices[j]), y: shares[i][j]}
concurPoints(row, idx) ==
    [j \in DOMAIN row |-> [x |-> idx[j] % ByteMod, y |-> row[j]]]

concurSecret(sh, idx) ==
    [r \in DOMAIN sh |-> interpolate(concurPoints(sh[r], idx), 0)]

\* A goroutine computes its chunk and ends without sending it.
CombineConcurSilent(g) ==
    /\ g.st = "running"
    /\ pc # "panic"
    /\ gor' = gor \ {g}
    /\ UNCHANGED <<args, ctl, reader, fn, pc, locals, pool, ret, ref, cshares, ci,
                   recovered, ncpu, newShares, indices, psecret, hist>>

\* A goroutine computes its chunk; it then waits to send it on ret.
CombineConcur(g) ==
    /\ g.st = "running"
    /\ pc # "panic"
    /\ LET sec == concurSecret(g.shares, indices)
       IN  IF \E r \in DOMAIN sec : sec[r] = DivPanic
           THEN /\ pc' = "panic"
                /\ UNCHANGED gor
           ELSE /\ gor' = (gor \ {g}) \cup
                            {[g EXCEPT !.st = "sending", !.secret = sec]}
                /\ UNCHANGED pc
    /\ UNCHANGED <<args, ctl, reader, fn, locals, pool, ret, ref, cshares, ci,
                   recovered, ncpu, newShares, indices, psecret, hist>>

\* Every chunk is written from position 0.
placeDataAtZero(sec, res) ==
    [pos \in DOMAIN sec |->
       IF pos <= Len(res.secret) THEN res.secret[pos] ELSE sec[pos]]

\* secret[i+res.Index] = res.Secret[i]
placeData(sec, res) ==
    [pos \in DOMAIN sec |->
       IF pos - 1 >= res.index /\ pos - 1 < res.index + Len(res.secret)
       THEN res.secret[pos - res.index]
       ELSE sec[pos]]

\* for count > 0 { count--; res := <-ret; ... }; return secret
CombineParallelRecv ==
    /\ pc = "cp_recv"
    /\ IF count > 0
       THEN \E g \in gor :
              /\ g.st = "sending"
              /\ psecret' = placeData(psecret, g)
              /\ gor' = gor \ {g}
              /\ count' = count - 1
              /\ placed' = Append(placed, [start |-> g.index,
                                            len |-> Len(g.secret)])
              /\ UNCHANGED pc
       ELSE /\ pc' = "cp_returned"
            /\ UNCHANGED <<psecret, gor, count, placed>>
    /\ UNCHANGED <<args, ctl, reader, fn, i, x, buf, p, shares, pool, ret, ref,
                   cshares, ci, recovered, ncpu, newShares, indices, units>>

(***************************************************************************)
(* The specification of Combine, then CombineParallel, on a share map the  *)
(* caller chooses: up to three shares, of one length or with one share a   *)
(* byte shorter than the others.                                           *)
(***************************************************************************)
MaxShareLen == 23   \* shares of 0..MaxShareLen bytes
MaxNumCPU == 1      \* runtime.NumCPU() is in 1..MaxNumCPU

ShareKeys == {0, 1, ByteMax}

shareBytes(key, l) == [j \in 1 .. l |-> (key * 7 + j * 13) % ByteMod]

InitCombine ==
    /\ ncpu \in 1 .. MaxNumCPU
    /\ \E S \in SUBSET ShareKeys :
         \E l \in 0 .. MaxShareLen :
            \E short \in SUBSET S :
               /\ Cardinality(short) <= 1
               /\ short # {} => l > 0
               /\ cshares = [key \in S |->
                               shareBytes(key, IF key \in short THEN l - 1
                                               ELSE l)]
    /\ fn = "Combine"
    /\ pc = "c_entry"
    /\ n = 0
    /\ k = 0
    /\ secret = <<>>
    /\ cpus = 0
    /\ w = <<>>
    /\ sendq = <<>>
    /\ wchan = <<>>
    /\ quit = <<>>
    /\ tape = <<>>
    /\ rpos = 0
    /\ closed = FALSE
    /\ i = 0
    /\ x = 0
    /\ buf = <<>>
    /\ p = <<>>
    /\ shares = EmptyMap
    /\ count = 0
    /\ ret = NoRet
    /\ ref = NoRet
    /\ ci = 0
    /\ recovered = <<>>
    /\ newShares = <<>>
    /\ indices = <<>>
    /\ psecret = <<>>
    /\ gor = {}
    /\ units = <<>>
    /\ placed = <<>>

NextCombine ==
    \/ CombineEntry
    \/ CombineStep
    \/ CombineReturn
    \/ CallCombineParallel
    \/ CombineParallelEntry
    \/ CombineParallelSpawn
    \/ \E g \in gor : CombineConcur(g)
    \/ CombineParallelRecv

SpecCombine == InitCombine /\ [][NextCombine]_vars

(***************************************************************************)
(* Properties.                                                             *)
(***************************************************************************)
SplitReturned == pc = "returned" /\ fn = "Split" /\ ret.err = "nil"

CombineOfSplitReturned == pc = "c_returned" /\ fn = "Split"

\* C1: when Combine returns on a subset of at least k of the shares that
\* Split(n, k, secret) returned, what it returns is exactly the secret.
RoundTrip ==
    (CombineOfSplitReturned /\ Cardinality(DOMAIN cshares) >= k)
        => recovered = secret

RoundTripWitness ==
    /\ CombineOfSplitReturned
    /\ Cardinality(DOMAIN cshares) = k
    /\ k < n
    /\ Len(secret) >= 2
    /\ recovered = secret

\* The polynomials generate can return for the constant term s.
generateRange(degree, s) ==
    {generateResult(s, mids, lead) :
        mids \in [1 .. degree - 1 -> Byte], lead \in Byte \ {0}}

\* How many of them pass through the point (id, y).
Consistent(degree, s, id, y) ==
    Cardinality({q \in generateRange(degree, s) : eval(q, id) = y})

\* C2: any k-1 shares reveal nothing, here for k = 2: whichever share of a
\* split is observed, every secret byte value is consistent with as many of
\* the polynomials generate can produce as the true secret byte is.
KMinusOneRevealNothing ==
    (SplitReturned /\ k = 2 /\ secret # <<>>) =>
        \A id \in DOMAIN ret.shares :
           \A s \in Byte :
              Consistent(k - 1, s, id, ret.shares[id][1])
                = Consistent(k - 1, secret[1], id, ret.shares[id][1])

\* C3 (as amended): the map Split returns for a non-empty secret has
\* exactly the keys 1..n, each share of len(secret) bytes; for the empty
\* secret it is the empty map.
SplitKeysNonEmptySecret ==
    SplitReturned =>
        /\ ~ret.nil
        /\ IF secret = <<>>
           THEN ret.shares = EmptyMap
           ELSE /\ DOMAIN ret.shares = 1 .. n
                /\ \A id \in DOMAIN ret.shares :
                      Len(ret.shares[id]) = Len(secret)

SplitEmptySecretWitness ==
    SplitReturned /\ secret = <<>> /\ n > k /\ DOMAIN ret.shares = {}

\* C3 as stated: the map Split returns has exactly the keys 1..n, each
\* share of len(secret) bytes, the empty secret included.
SplitKeys ==
    SplitReturned =>
        /\ DOMAIN ret.shares = 1 .. n
        /\ \A id \in DOMAIN ret.shares : Len(ret.shares[id]) = Len(secret)

\* C4: in no split variant does the share-ID counter wrap to 0: no share
\* with ID 0 is ever created, also when n = 255.
NoShareZero == 0 \notin DOMAIN shares

\* C5: once past its parameter checks a split variant has returned
\* ErrInvalidThreshold and a nil map if k <= 1, ErrInvalidCount and a nil
\* map if k > 1 and n < k, and neither error otherwise.
ParamValidation ==
    /\ (pc # "entry" /\ k <= 1) =>
          pc = "returned" /\ ret.nil /\ ret.err = "ErrInvalidThreshold"
    /\ (pc # "entry" /\ k > 1 /\ n < k) =>
          pc = "returned" /\ ret.nil /\ ret.err = "ErrInvalidCount"
    /\ (k > 1 /\ n >= k) =>
          ret.err \notin {"ErrInvalidThreshold", "ErrInvalidCount"}

ParamValidationWitness ==
    /\ fn = "SplitParallel"
    /\ k = 1
    /\ n = 0
    /\ pc = "returned"
    /\ ret.err = "ErrInvalidThreshold"

\* C6: pooled SplitParallel, run with the arguments and the random bytes
\* of a Split that succeeded, returns the share map Split returned.
ParallelSplitSame ==
    (pc = "returned" /\ fn = "SplitParallel" /\ ref.err = "nil"
       /\ ret.err = "nil" /\ secret # <<>>)
        => ret.shares = ref.shares

\* C8: once the random source has failed a read of Split or SplitNew, the
\* call has returned the error and a nil map, not the shares built so far.
RandomFailure ==
    (fn \in {"Split", "SplitNew"} /\ closed) =>
        /\ pc = "returned"
        /\ ret.err = "ErrRandom"
        /\ ret.nil
        /\ ret.shares = EmptyMap

RandomFailureWitness ==
    /\ fn = "Split"
    /\ closed
    /\ shares # EmptyMap
    /\ pc = "returned"
    /\ ret.nil

EqualLengths(m) == \A a, b \in DOMAIN m : Len(m[a]) = Len(m[b])

\* C7: on a map of equal-length shares neither Combine nor CombineParallel
\* fails, and whatever the order in which the chunk results arrive,
\* CombineParallel returns the byte sequence Combine returned.
CombineParallelSame ==
    EqualLengths(cshares) =>
        /\ pc # "panic"
        /\ pc = "cp_returned" => psecret = recovered

CombineParallelSameWitness ==
    /\ pc = "cp_returned"
    /\ Cardinality(DOMAIN cshares) = Cardinality(ShareKeys)
    /\ Len(psecret) > 2 * chunkSize
    /\ Len(psecret) % chunkSize # 0
    /\ psecret = recovered

\* C9: Combine has no runtime failure, whatever the share map.
CombineNeverFails == ~(fn = "Combine" /\ pc = "panic")

combineIn(m, ord) ==
    IF ord = <<>>
    THEN [panic |-> FALSE, secret |-> <<>>]
    ELSE LET l == Len(m[ord[1]])
         IN  IF \E key \in DOMAIN m : Len(m[key]) < l
             THEN [panic |-> TRUE, secret |-> <<>>]
             ELSE [panic |-> FALSE,
                   secret |-> [pos \in 1 .. l |->
                                 interpolate(pointsAt(m, ord, pos - 1), 0)]]

\* C11: the outcome of Combine on a map is the same for every order in
\* which the map yields its shares: the outcome the run had is the outcome
\* of every order.
CombineOrderIndependent ==
    (fn = "Combine" /\ pc \in {"c_returned", "panic"}) =>
        \A ord \in Perms(DOMAIN cshares) :
           combineIn(cshares, ord)
             = [panic |-> pc = "panic",
                secret |-> IF pc = "panic" THEN <<>> ELSE recovered]

\* C12: when Combine returns on the full share map that SplitNew, or
\* SplitNewConcur on its pool of n workers, returned, the map has the keys
\* 1..n and what Combine returns is exactly the secret.
BatchedRoundTrip ==
    (pc = "c_returned" /\ fn \in {"SplitNew", "SplitNewConcur"}) =>
        /\ DOMAIN cshares = 1 .. n
        /\ recovered = secret

BatchedRoundTripWitness ==
    /\ pc = "c_returned"
    /\ fn = "SplitNewConcur"
    /\ ref = NoRet
    /\ n > k
    /\ Len(secret) >= 2
    /\ recovered = secret

\* C14: a split variant that has rejected (n, k) has read no byte of the
\* random source and has sent no work: every queue is empty and every
\* worker of the pool is idle.
ValidationBeforeEffect ==
    (pc = "returned"
       /\ ret.err \in {"ErrInvalidThreshold", "ErrInvalidCount"}) =>
        /\ tape = <<>>
        /\ rpos = 0
        /\ ~closed
        /\ \A j \in DOMAIN sendq : sendq[j] = <<>>
        /\ \A j \in DOMAIN w : w[j] = Idle

ValidationBeforeEffectWitness ==
    /\ pc = "returned"
    /\ ret.err = "ErrInvalidCount"
    /\ fn = "SplitNewConcur"
    /\ DOMAIN w # {}
    /\ tape = <<>>

\* C16: once a read of the random source has failed in generatePolys,
\* pooled SplitParallel has returned the error: a failed read is never
\* tried again.
PolysRandomFailure ==
    (fn = "SplitParallel" /\ closed) =>
        pc = "returned" /\ ret.err = "ErrRandom"

\* C20: in a pooled split no worker is blocked on a send: a worker holds
\* a result for the unbuffered result channel only while the dispatcher is
\* in its receive loop.
BlockedOnlyOnReceive ==
    pc # "panic" =>
        \A j \in DOMAIN w :
           w[j].st = "sending" => pc \in {"snc_recv", "sp_recv"}

\* C18: whatever the order in which the chunk results arrive, the map that
\* SplitParallel returns holds, for every share j in 1..n and every byte
\* position, the value at j of the polynomial generated for that position.
ReassemblyByIndex ==
    (fn = "SplitParallel" /\ pc = "returned" /\ ret.err = "nil") =>
        /\ DOMAIN ret.shares = 1 .. n
        /\ \A j \in 1 .. n :
              /\ Len(ret.shares[j]) = Len(secret)
              /\ \A pos \in 1 .. Len(secret) :
                    ret.shares[j][pos] = eval(p[pos], j)

\* SplitParallel has returned after the result of the second chunk arrived
\* before the result of the first.
ReassemblyByIndexWitness ==
    /\ fn = "SplitParallel" /\ pc = "returned" /\ ret.err = "nil"
    /\ Len(placed) = 2
    /\ placed[1].start > placed[2].start

(***************************************************************************)
(* The two parallel operations together: the pooled SplitParallel with its *)
(* workers, and Combine / CombineParallel with its goroutines.             *)
(***************************************************************************)
InitParallel ==
    \/ Init /\ fn = "SplitParallel"
    \/ InitCombine

NextParallel ==
    \/ Entry
    \/ GenPolysBulk
    \/ GenPolysLead
    \/ SplitParallelDispatch
    \/ SplitParallelMake
    \/ SplitParallelRecv
    \/ \E wi \in DOMAIN w : SplitParallelLoop(wi)
    \/ CombineEntry
    \/ CombineStep
    \/ CombineReturn
    \/ CallCombineParallel
    \/ CombineParallelEntry
    \/ CombineParallelSpawn
    \/ \E g \in gor : CombineConcur(g)
    \/ CombineParallelRecv

SpecParallel == InitParallel /\ [][NextParallel]_vars

\* The number of byte positions the running operation has to produce.
outputLen == IF fn = "SplitParallel" THEN Len(secret) ELSE Len(psecret)

parallelReturned ==
    \/ fn = "SplitParallel" /\ pc = "returned" /\ ret.err = "nil"
    \/ pc = "cp_returned"

unitsTile ==
    /\ \A q \in DOMAIN units :
          /\ units[q].len >= 1
          /\ units[q].start = IF q = 1 THEN 0
                              ELSE units[q - 1].start + units[q - 1].len
          /\ units[q].start + units[q].len <= outputLen
    /\ \A q \in DOMAIN placed : \E u \in DOMAIN units : units[u] = placed[q]
    /\ \A q1, q2 \in DOMAIN placed :
          q1 # q2 => placed[q1].start # placed[q2].start
    /\ parallelReturned =>
          /\ Len(placed) = Len(units)
          /\ IF units = <<>> THEN outputLen = 0
             ELSE units[Len(units)].start + units[Len(units)].len = outputLen

workerStep ==
    \/ \E wi \in DOMAIN w : SplitParallelLoop(wi)
    \/ \E g \in gor : CombineConcur(g)

\* C19: the chunks handed out are contiguous from position 0, disjoint and
\* within the output; every result placed is one of them and none is placed
\* twice; at the return they cover every position and each has been placed
\* once; and no step of a worker changes the share map, the secret buffer
\* or the record of what was placed.
DisjointCoveringUnits ==
    /\ []unitsTile
    /\ [][workerStep => UNCHANGED <<shares, psecret, placed>>]_vars

\* CombineParallel has returned a secret made of three chunks, the first
\* result received not being the first chunk.
DisjointCoveringUnitsWitness ==
    /\ pc = "cp_returned"
    /\ Len(units) = 3
    /\ Len(placed) = 3
    /\ placed[1].start > 0

(***************************************************************************)
(* SplitParallel on long secrets.  The secret and the random source are    *)
(* fixed byte streams (what generatePolys does with positions and lengths  *)
(* does not depend on their values); the source holds every byte the call  *)
(* can read, a zero among them now and then.                               *)
(***************************************************************************)
MaxLong == 1     \* secrets of up to ByteMod + MaxLong bytes

LongLens ==
    (0 .. 2) \cup {ByteMod \div 2 + 1} \cup (ByteMod - 1 .. ByteMod + MaxLong)

LongCpus == {ByteMod \div 2, ByteMod}

secretStream(l) == [j \in 1 .. l |-> (j * 5) % ByteMod]

randStream(l) == [j \in 1 .. l |-> (j * 37) % ByteMod]

InitPolys ==
    /\ n \in 2 .. MaxN
    /\ k \in 2 .. MaxK
    /\ n >= k
    /\ \E l \in LongLens :
          /\ secret = secretStream(l)
          /\ tape = randStream(k * l + 4)
    /\ fn = "SplitParallel"
    /\ cpus \in LongCpus
    /\ w = [j \in 1 .. PoolSize(fn, n, secret, cpus) |-> Idle]
    /\ sendq = [j \in 1 .. PoolSize(fn, n, secret, cpus) |-> <<>>]
    /\ wchan = poolChans(fn, PoolSize(fn, n, secret, cpus))
    /\ quit = poolQuit(fn, PoolSize(fn, n, secret, cpus))
    /\ rpos = 0
    /\ closed = FALSE
    /\ pc = "entry"
    /\ i = 0
    /\ x = 0
    /\ buf = <<>>
    /\ p = <<>>
    /\ shares = EmptyMap
    /\ count = 0
    /\ ret = NoRet
    /\ ref = NoRet
    /\ cshares = EmptyMap
    /\ ci = 0
    /\ recovered = <<>>
    /\ ncpu = 1
    /\ newShares = <<>>
    /\ indices = <<>>
    /\ psecret = <<>>
    /\ gor = {}
    /\ units = <<>>
    /\ placed = <<>>

NextPolys ==
    \/ Entry
    \/ GenPolysBulk
    \/ GenPolysLead
    \/ SplitParallelDispatch
    \/ SplitParallelMake
    \/ SplitParallelRecv
    \/ \E wi \in DOMAIN w : SplitParallelLoop(wi)

SpecPolys == InitPolys /\ [][NextPolys]_vars

\* C13: for every secret length, 256 and more included, generatePolys
\* returns one polynomial of k coefficients for each secret byte, and
\* SplitParallel returns n shares as long as the secret; the call does not
\* fail on an index.
PolysEveryLength ==
    /\ pc # "panic"
    /\ pc \in {"sp_dispatch", "sp_make", "sp_recv", "returned"} =>
          /\ Len(p) = Len(secret)
          /\ \A r \in DOMAIN p : Len(p[r]) = k
    /\ pc = "returned" =>
          /\ ret.err = "nil"
          /\ DOMAIN ret.shares = 1 .. n
          /\ \A j \in 1 .. n : Len(ret.shares[j]) = Len(secret)

\* The positions of the random buffer that row ii of generatePolys reads.
gpPositions(ii, degree) == {gpIndex(ii, degree, j) : j \in 1 .. degree}

\* C15: when generatePolys has copied the random buffer into the rows, no
\* two rows have read a common position of the buffer.
PolysDisjointPositions ==
    (pc = "gp_lead" /\ i = 0) =>
        \A i1, i2 \in 0 .. Len(secret) - 1 :
           i1 # i2 =>
              gpPositions(i1, sub8(k, 1)) \cap gpPositions(i2, sub8(k, 1)) = {}

(***************************************************************************)
(* The SplitParallel that starts one SplitParallelLoop task per chunk.     *)
(* Each task generates the polynomial of each of its bytes itself          *)
(* (generate, on the shared random source), evaluates it at 1..n and sends *)
(* one Result on the unbuffered channel ret; the value a task returns is   *)
(* dropped by the go statement.  gor holds the tasks.  The random source   *)
(* is a fixed byte stream of at most MaxTape bytes that fails after its     *)
(* last byte.                                                              *)
(***************************************************************************)
MaxTape == 6     \* bytes the random source delivers before it fails

TaskLens == (0 .. MaxLen) \cup (chunkSize + 1 .. chunkSize + MaxLen)

taskStream(l) == [j \in 1 .. l |-> (j * 3) % 4]

InitTasks ==
    /\ n \in (0 .. MaxN) \cup {ByteMax}
    /\ k \in 0 .. MaxK
    /\ ncpu = 1
    /\ \E l \in TaskLens :
          /\ n = ByteMax => l <= MaxLenWide
          /\ secret = secretStream(l)
          /\ \E t \in 0 .. MaxTape : tape = taskStream(t)
    /\ closed = TRUE
    /\ rpos = 0
    /\ fn = "SplitParallelTasks"
    /\ pc = "tp_entry"
    /\ cpus = 0
    /\ w = <<>>
    /\ sendq = <<>>
    /\ wchan = <<>>
    /\ quit = <<>>
    /\ i = 0
    /\ x = 0
    /\ buf = <<>>
    /\ p = <<>>
    /\ shares = EmptyMap
    /\ count = 0
    /\ ret = NoRet
    /\ ref = NoRet
    /\ cshares = EmptyMap
    /\ ci = 0
    /\ recovered = <<>>
    /\ newShares = <<>>
    /\ indices = <<>>
    /\ psecret = <<>>
    /\ gor = {}
    /\ units = <<>>
    /\ placed = <<>>

\* The parameter checks, cpus and ret.
TaskEntry ==
    /\ pc = "tp_entry"
    /\ LET e == checkParams(n, k)
       IN  IF e # "nil"
           THEN Return(EmptyMap, TRUE, e)
           ELSE /\ pc' = "tp_spawn"
                /\ UNCHANGED ret
    /\ UNCHANGED <<args, ctl, reader, fn, locals, pool, ref, comb>>

\* One pass of the chunk loop: go SplitParallelLoop(k-1, secret[i:e+1], ...)
TaskSpawn ==
    /\ pc = "tp_spawn"
    /\ IF i < Len(secret)
       THEN LET e == chunkEnd(i, chunkSize, Len(secret))
            IN  /\ gor' = gor \cup {[index |-> i,
                                     bytes |-> SubSeq(secret, i + 1, e + 1),
                                     st |-> "mid", mids |-> <<>>,
                                     rows |-> <<>>]}
                /\ count' = count + 1
                /\ i' = i + chunkSize
                /\ units' = Append(units, [start |-> i, len |-> e - i + 1])
                /\ UNCHANGED <<x, pc>>
       ELSE /\ x' = 1
            /\ pc' = "tp_make"
            /\ UNCHANGED <<i, count, gor, units>>
    /\ UNCHANGED <<args, ctl, reader, fn, buf, p, shares, pool, ret, ref, cshares,
                   ci, recovered, ncpu, newShares, indices, psecret, placed>>

\* for i := byte(1); i <= n; i++ { shares[i] = make([]byte, len(secret)) }
TaskMake ==
    /\ pc = "tp_make"
    /\ IF x <= n
       THEN /\ shares' = MapPut(shares, x, Zeros(Len(secret)))
            /\ x' = inc8(x)
            /\ UNCHANGED pc
       ELSE /\ pc' = "tp_recv"
            /\ UNCHANGED <<shares, x>>
    /\ UNCHANGED <<args, ctl, reader, fn, i, buf, p, count, pool, ret, ref, comb>>

\* A task at the start of its loop body, or after its loop.
taskNext(g, rows) ==
    [g EXCEPT !.rows = rows, !.mids = <<>>,
              !.st = IF Len(rows) = Len(g.bytes) THEN "sending" ELSE "mid"]

\* A task with no byte sends its empty Result at once; otherwise generate's
\* first read, of the degree-1 middle coefficients.  On a failed read the
\* task returns the error and sends nothing.
TaskGenerate(g) ==
    /\ g.st = "mid"
    /\ pc # "panic"
    /\ IF g.bytes = <<>>
       THEN /\ gor' = (gor \ {g}) \cup {taskNext(g, <<>>)}
            /\ UNCHANGED reader
       ELSE \E o \in ReadFull(sub8(sub8(k, 1), 1)) :
              /\ TakeRead(o)
              /\ gor' = (gor \ {g}) \cup
                           {IF o.ok THEN [g EXCEPT !.st = "lead",
                                                   !.mids = o.data]
                            ELSE [g EXCEPT !.st = "failed"]}
    /\ UNCHANGED <<args, ctl, fn, pc, locals, pool, ret, ref, cshares, ci,
                   recovered, ncpu, newShares, indices, psecret, hist>>

\* One read of generate's rejection loop, and on a nonzero byte the share-ID
\* loop of the task: shares[i][x-1] = eval(p, x).  With n = 255 the byte
\* counter x wraps to 0 and shares[i][-1] panics.
TaskLead(g) ==
    /\ g.st = "lead"
    /\ pc # "panic"
    /\ \E o \in ReadFull(1) :
         /\ TakeRead(o)
         /\ IF ~o.ok
            THEN /\ gor' = (gor \ {g}) \cup {[g EXCEPT !.st = "failed"]}
                 /\ UNCHANGED pc
            ELSE IF ~isLeading(o.data[1])
            THEN UNCHANGED <<gor, pc>>
            ELSE IF n = ByteMax
            THEN /\ pc' = "panic"
                 /\ UNCHANGED gor
            ELSE LET poly == generateResult(g.bytes[Len(g.rows) + 1],
                                            g.mids, o.data[1])
                     row == [xx \in 1 .. n |-> eval(poly, xx)]
                 IN  /\ gor' = (gor \ {g}) \cup
                                  {taskNext(g, Append(g.rows, row))}
                     /\ UNCHANGED pc
    /\ UNCHANGED <<args, ctl, fn, i, x, buf, p, shares, count, pool, ret, ref,
                   cshares, ci, recovered, ncpu, newShares, indices, psecret,
                   hist>>

\* The receive loop: res := <-ret meets a task that is sending.
TaskRecv ==
    /\ pc = "tp_recv"
    /\ IF count > 0
       THEN \E g \in gor :
              /\ g.st = "sending"
              /\ shares' = placeResult(shares,
                                       [Shares |-> g.rows, Index |-> g.index,
                                        N |-> Len(g.bytes)], n)
              /\ gor' = gor \ {g}
              /\ count' = count - 1
              /\ placed' = Append(placed, [start |-> g.index,
                                            len |-> Len(g.bytes)])
              /\ UNCHANGED <<pc, ret>>
       ELSE /\ Return(shares, FALSE, "nil")
            /\ UNCHANGED <<shares, gor, count, placed>>
    /\ UNCHANGED <<args, ctl, reader, fn, i, x, buf, p, pool, ref, cshares, ci,
                   recovered, ncpu, newShares, indices, psecret, units>>

NextTasks ==
    \/ TaskEntry
    \/ TaskSpawn
    \/ TaskMake
    \/ \E g \in gor : TaskGenerate(g)
    \/ \E g \in gor : TaskLead(g)
    \/ TaskRecv

SpecTasks == InitTasks /\ [][NextTasks]_vars

\* C17: the dispatcher is never left in its receive loop waiting for a
\* result when every task still alive has given up on a failed read: a
\* failure of the generation in a task ends the call.
TaskFailureEndsCall ==
    ~ /\ pc = "tp_recv"
      /\ count > 0
      /\ \A g \in gor : g.st = "failed"

\* The polynomial of byte position pos (from 0) in the flat result of
\* generateRand: k coefficients from pos * k.
rowOf(flat, kk, pos) == SubSeq(flat, pos * kk + 1, pos * kk + kk)

wellFormed(poly, b) ==
    /\ Len(poly) = k
    /\ poly[1] = b
    /\ poly[k] # 0

\* C24: every polynomial a split variant goes on to evaluate has k
\* coefficients, the secret byte of its position as constant term and a
\* nonzero leading coefficient, whatever bytes (zeros included) the random
\* source delivered.
PolysWellFormed ==
    /\ (fn = "Split" /\ pc = "s_eval") => wellFormed(p, secret[i + 1])
    /\ (fn \in {"SplitNew", "SplitNewConcur"}
          /\ pc \in {"sn_loop", "snc_send", "snc_recv"}) =>
          /\ Len(p) = k * Len(secret)
          /\ \A pos \in 0 .. Len(secret) - 1 :
                wellFormed(rowOf(p, k, pos), secret[pos + 1])
    /\ (fn = "SplitParallel"
          /\ pc \in {"sp_dispatch", "sp_make", "sp_recv"}) =>
          /\ Len(p) = Len(secret)
          /\ \A pos \in 1 .. Len(secret) : wellFormed(p[pos], secret[pos])

\* generatePolys has returned after it rejected a zero byte as a leading
\* coefficient.
PolysWellFormedWitness ==
    /\ fn = "SplitParallel"
    /\ pc = "sp_dispatch"
    /\ Len(secret) > 0
    /\ rpos > k * Len(secret)
    /\ \E j \in k * Len(secret) .. rpos : tape[j] = 0

\* The divisors a.x xor b.x that interpolate uses on a list of points.
divisors(points) ==
    {xor(points[q[1]].x, points[q[2]].x) :
       q \in {r \in (DOMAIN points) \X (DOMAIN points) : r[1] # r[2]}}

\* C25: every list of points that Combine and CombineConcur hand to
\* interpolate, in whatever order the map yields its keys and with share
\* ID 0 among them, has only nonzero divisors, and interpolate does not
\* fail on it.
NoZeroDivisor ==
    /\ (fn = "Combine" /\ pc = "c_loop" /\ ci < Len(recovered)
          /\ \A key \in DOMAIN cshares : Len(cshares[key]) > ci) =>
          \A ord \in Perms(DOMAIN cshares) :
             /\ 0 \notin divisors(pointsAt(cshares, ord, ci))
             /\ interpolate(pointsAt(cshares, ord, ci), 0) # DivPanic
    /\ \A g \in gor :
          g.st = "running" =>
             \A r \in DOMAIN g.shares :
                /\ 0 \notin divisors(concurPoints(g.shares[r], indices))
                /\ interpolate(concurPoints(g.shares[r], indices), 0)
                      # DivPanic

\* Combine has interpolated a byte of a map of three shares, share 0 among
\* them.
NoZeroDivisorWitness ==
    /\ fn = "Combine"
    /\ pc = "c_loop"
    /\ ci >= 1
    /\ 0 \in DOMAIN cshares
    /\ Cardinality(DOMAIN cshares) = 3

combineParallelRuns == fn = "CombineParallel" /\ EqualLengths(cshares)

\* Passes of the chunk loop still to come.
chunksLeft ==
    LET len == IF pc = "cp_entry"
               THEN IF DOMAIN cshares = {} THEN 0
                    ELSE Len(cshares[CHOOSE key \in DOMAIN cshares : TRUE])
               ELSE Len(psecret)
        rest == IF pc = "cp_entry" THEN len ELSE len - i
    IN  IF rest <= 0 THEN 0 ELSE (rest + chunkSize - 1) \div chunkSize

\* Steps CombineParallel and its goroutines still have to take: three per
\* chunk not yet cut (spawn, compute, receive), two per goroutine that
\* runs, one per goroutine that sends, and the moves of the dispatcher
\* from one loop to the next.
stepsLeft ==
    3 * chunksLeft
    + 2 * Cardinality({g \in gor : g.st = "running"})
    + Cardinality({g \in gor : g.st = "sending"})
    + (CASE pc = "cp_entry" -> 3
         [] pc = "cp_spawn" -> 2
         [] pc = "cp_recv" -> 1
         [] OTHER -> 0)

noLeak ==
    combineParallelRuns =>
        /\ pc # "panic"
        /\ pc \in {"cp_spawn", "cp_recv"} => count = Cardinality(gor)
        /\ Len(placed) + count = Len(units)
        /\ \A q1, q2 \in DOMAIN placed :
              q1 # q2 => placed[q1].start # placed[q2].start
        /\ pc = "cp_returned" => gor = {} /\ count = 0
        /\ pc # "cp_returned" => ENABLED NextCombine

\* C30: on a map of equal-length shares every CombineConcur goroutine
\* alive is one whose result the dispatcher still counts on, every result
\* is received once, and when CombineParallel has returned no goroutine
\* is left; until then a step is always possible, and every step brings
\* the return one step nearer, so CombineParallel returns.
CombineParallelNoLeak ==
    /\ []noLeak
    /\ [][combineParallelRuns => stepsLeft' = stepsLeft - 1]_vars

\* CombineParallel has returned after two goroutines, none left.
CombineParallelNoLeakWitness ==
    /\ combineParallelRuns
    /\ pc = "cp_returned"
    /\ Len(placed) = 2
    /\ gor = {}

(***************************************************************************)
(* The life of a pool, as the benchmarks run it: calls one after another   *)
(* on the same workers, then one shutdown signal per worker.  The random   *)
(* source is a fixed byte stream long enough for every call.               *)
(***************************************************************************)
Pooled == {"SplitNewConcur", "SplitParallel"}

\* Capacity of a shutdown channel: make(chan bool, n) / make(chan bool, 1000)
quitCap == IF fn = "SplitNewConcur" THEN n ELSE SendCap

\* A worker leaves on a signal whether or not it holds a result.
WorkerReturnAnytime(wi) ==
    /\ w[wi].st \in {"idle", "sending"}
    /\ wchan[wi].made
    /\ quit[wchan[wi].quit] > 0
    /\ pc # "panic"
    /\ w' = [w EXCEPT ![wi] = [st |-> "exited", res |-> <<>>]]
    /\ quit' = [quit EXCEPT ![wchan[wi].quit] = @ - 1]
    /\ UNCHANGED <<args, reader, fn, pc, locals, sendq, wchan, ret, ref, comb>>

\* A worker takes the signal and goes back to its select.
WorkerReturnStay(wi) ==
    /\ w[wi].st = "idle"
    /\ wchan[wi].made
    /\ quit[wchan[wi].quit] > 0
    /\ pc # "panic"
    /\ quit' = [quit EXCEPT ![wchan[wi].quit] = @ - 1]
    /\ UNCHANGED <<args, reader, fn, pc, locals, pool, wchan, ret, ref, comb>>

\* case <-endChan: return / case <-quit: return.  An idle worker takes a
\* signal from its shutdown channel and leaves its loop.
WorkerReturn(wi) ==
    /\ w[wi].st = "idle"
    /\ wchan[wi].made
    /\ quit[wchan[wi].quit] > 0
    /\ pc # "panic"
    /\ w' = [w EXCEPT ![wi] = [st |-> "exited", res |-> <<>>]]
    /\ quit' = [quit EXCEPT ![wchan[wi].quit] = @ - 1]
    /\ UNCHANGED <<args, reader, fn, pc, locals, sendq, wchan, ret, ref, comb>>

\* The next pass of the benchmark's loop over b.N: the same call on the
\* same pool, the random source going on where it was.
CallAgain ==
    /\ pc = "returned"
    /\ fn \in Pooled
    /\ ret.err = "nil"
    /\ ref = NoRet
    /\ pc' = "entry"
    /\ ref' = ret
    /\ ret' = NoRet
    /\ i' = 0
    /\ x' = 0
    /\ buf' = <<>>
    /\ p' = <<>>
    /\ shares' = EmptyMap
    /\ count' = 0
    /\ units' = <<>>
    /\ placed' = <<>>
    /\ UNCHANGED <<args, reader, fn, pool, ctl, cshares, ci, recovered, par>>

\* After the last call the caller starts its shutdown loop.
Shutdown ==
    /\ pc = "returned"
    /\ fn \in Pooled
    /\ ret.err = "nil"
    /\ pc' = "q_loop"
    /\ x' = 0
    /\ UNCHANGED <<args, reader, fn, i, buf, p, shares, count, pool, ctl, ret,
                   ref, comb>>

\* The shutdown loop ends after its first signal.
QuitSendOnce ==
    /\ pc = "q_loop"
    /\ IF x < 1 /\ DOMAIN w # {}
       THEN /\ quit' = [quit EXCEPT ![1] = @ + 1]
            /\ x' = x + 1
            /\ UNCHANGED pc
       ELSE /\ pc' = "q_done"
            /\ UNCHANGED <<x, quit>>
    /\ UNCHANGED <<args, reader, fn, i, buf, p, shares, count, pool, wchan,
                   ret, ref, comb>>

\* for i := 0; i < len(send); i++ { quit[i] <- true }, and in
\* BenchmarkConcurNew1 for i := byte(0); i < n; i++ { endChan <- true }
QuitSend ==
    /\ pc = "q_loop"
    /\ IF x < (IF fn = "SplitNewConcur" THEN n ELSE Len(w))
       THEN LET c == IF fn = "SplitNewConcur" THEN 1 ELSE x + 1
            IN  /\ fn = "SplitParallel" => wchan[x + 1].made
                /\ quit[c] < quitCap
                /\ quit' = [quit EXCEPT ![c] = @ + 1]
                /\ x' = x + 1
                /\ UNCHANGED pc
       ELSE /\ pc' = "q_done"
            /\ UNCHANGED <<x, quit>>
    /\ UNCHANGED <<args, reader, fn, i, buf, p, shares, count, pool, wchan,
                   ret, ref, comb>>

poolStream(l) == [j \in 1 .. l |-> (j * 3) % 4]

InitPool ==
    /\ n \in 2 .. MaxN
    /\ k \in 2 .. MaxK
    /\ n >= k
    /\ \E l \in 0 .. MaxLen : secret = secretStream(l)
    /\ fn \in Pooled
    /\ cpus \in CpusFor(fn)
    /\ w = [j \in 1 .. PoolSize(fn, n, secret, cpus) |-> Idle]
    /\ sendq = [j \in 1 .. PoolSize(fn, n, secret, cpus) |-> <<>>]
    /\ wchan = poolChans(fn, PoolSize(fn, n, secret, cpus))
    /\ quit = poolQuit(fn, PoolSize(fn, n, secret, cpus))
    /\ tape = poolStream(4 * MaxK * MaxLen)
    /\ rpos = 0
    /\ closed = FALSE
    /\ pc = "entry"
    /\ i = 0
    /\ x = 0
    /\ buf = <<>>
    /\ p = <<>>
    /\ shares = EmptyMap
    /\ count = 0
    /\ ret = NoRet
    /\ ref = NoRet
    /\ cshares = EmptyMap
    /\ ci = 0
    /\ recovered = <<>>
    /\ ncpu = 1
    /\ newShares = <<>>
    /\ indices = <<>>
    /\ psecret = <<>>
    /\ gor = {}
    /\ units = <<>>
    /\ placed = <<>>

splitStep ==
    \/ Entry
    \/ GenRandBulk
    \/ GenRandRow
    \/ SplitNewConcurSend
    \/ SplitNewConcurRecv
    \/ GenPolysBulk
    \/ GenPolysLead
    \/ SplitParallelDispatch
    \/ SplitParallelMake
    \/ SplitParallelRecv
    \/ \E wi \in DOMAIN w : SplitParallelLoop(wi)

NextPool ==
    \/ splitStep
    \/ CallAgain
    \/ Shutdown
    \/ QuitSend
    \/ \E wi \in DOMAIN w : WorkerReturn(wi)

SpecPool == InitPool /\ [][NextPool]_vars

\* The caller and every worker are goroutines the scheduler runs whenever
\* they can take a step.
SpecPoolFair == SpecPool /\ WF_vars(NextPool)

pooledReturned == fn \in Pooled /\ pc = "returned" /\ ret.err = "nil"

\* The polynomial of byte position pos (from 1) that the running call
\* generated.
callPoly(pos) ==
    IF fn = "SplitNewConcur" THEN rowOf(p, k, pos - 1) ELSE p[pos]

\* C23: when a pooled split call returns a share map, every worker is idle
\* in its receive loop with nothing left in its queue and no result in
\* hand, every chunk handed out has had its result placed, and the shares
\* returned are the values of the polynomials this call generated (also in
\* a second call on the same pool).
PoolReuse ==
    pooledReturned =>
        /\ \A j \in DOMAIN w : w[j] = Idle /\ sendq[j] = <<>>
        /\ count = 0
        /\ Len(placed) = Len(units)
        /\ DOMAIN ret.shares = 1 .. n
        /\ \A j \in 1 .. n :
              /\ Len(ret.shares[j]) = Len(secret)
              /\ \A pos \in 1 .. Len(secret) :
                    ret.shares[j][pos] = eval(callPoly(pos), j)

\* The second call on a pool of SplitParallelLoop workers has returned a
\* share map of two chunks that differs from the map of the first call.
PoolReuseWitness ==
    /\ pooledReturned
    /\ fn = "SplitParallel"
    /\ ref # NoRet
    /\ Len(units) = 2
    /\ ret.shares # ref.shares

exited == {j \in DOMAIN w : w[j].st = "exited"}

signalsAccounted ==
    (fn = "SplitNewConcur" /\ pc \in {"q_loop", "q_done"}) =>
        /\ quit[1] + Cardinality(exited) = IF pc = "q_loop" THEN x ELSE n
        /\ \A j \in DOMAIN w : w[j].st \in {"idle", "exited"}

\* C29: with the n RunParallel workers idle on one shutdown channel, every
\* signal the caller has sent is either still in the channel or was taken
\* by one worker that exited on it, and once the caller has started its n
\* sends all n workers exit and no signal is left.
SharedShutdown ==
    /\ []signalsAccounted
    /\ ((fn = "SplitNewConcur" /\ pc = "q_loop")
          ~> (pc = "q_done" /\ exited = DOMAIN w /\ quit[1] = 0))

\* Three RunParallel workers have exited on three signals.
SharedShutdownWitness ==
    /\ fn = "SplitNewConcur"
    /\ pc = "q_done"
    /\ Cardinality(exited) = MaxN
    /\ quit[1] = 0

\* Worker numbers of the largest pool.
PoolIds == 1 .. (MaxN + MaxLen)

signalled(wi) ==
    /\ wi \in DOMAIN w
    /\ w[wi].st = "idle"
    /\ quit[wchan[wi].quit] > 0

hasExited(wi) == wi \in DOMAIN w /\ w[wi].st = "exited"

\* C22: a worker that is idle in its select while its shutdown channel
\* holds a signal exits in the end, and a worker that has exited stays so:
\* it takes no Input from its queue and holds no result to send.
WorkerShutdown ==
    /\ \A wi \in PoolIds : signalled(wi) ~> hasExited(wi)
    /\ [][\A wi \in DOMAIN w :
            w[wi].st = "exited" =>
               /\ w'[wi] = w[wi]
               /\ Len(sendq'[wi]) >= Len(sendq[wi])]_vars

\* The SplitParallelLoop workers of a pool of two or more have all exited,
\* each on the signal of its own channel.
WorkerShutdownWitness ==
    /\ fn = "SplitParallel"
    /\ pc = "q_done"
    /\ Len(w) >= 2
    /\ exited = DOMAIN w
    /\ \A c \in DOMAIN quit : quit[c] = 0

(***************************************************************************)
(* A pool whose owner signals the shutdown while a call is running: at     *)
(* most one signal per worker, at any moment.                              *)
(***************************************************************************)
QuitEarly ==
    /\ pc \notin {"q_loop", "q_done", "panic"}
    /\ \E c \in DOMAIN quit :
         /\ quit[c] + Cardinality({j \in exited : wchan[j].quit = c})
               < Cardinality({j \in DOMAIN w : wchan[j].quit = c})
         /\ quit[c] < quitCap
         /\ quit' = [quit EXCEPT ![c] = @ + 1]
    /\ UNCHANGED <<args, reader, fn, pc, locals, pool, wchan, ret, ref, comb>>

NextShutdown ==
    \/ splitStep
    \/ QuitEarly
    \/ \E wi \in DOMAIN w : WorkerReturn(wi)

SpecShutdown == InitPool /\ [][NextShutdown]_vars

\* The dispatcher takes the result worker wi holds.
delivered(wi) ==
    IF fn = "SplitNewConcur"
    THEN wi \in DOMAIN shares' /\ shares'[wi] = w[wi].res
    ELSE placed' = Append(placed, [start |-> w[wi].res.Index,
                                   len |-> w[wi].res.N])

\* C21: a worker that has received a unit of work holds its result until
\* the dispatcher has taken it; only then is it back in its select, where
\* it can see a shutdown signal.  No step takes a worker from holding a
\* result to anything else, a pending signal or not.
InFlightDelivered ==
    [][\A wi \in DOMAIN w :
          w[wi].st = "sending" =>
             \/ w'[wi] = w[wi]
             \/ w'[wi] = Idle /\ delivered(wi)]_vars

\* A worker holds a result while a signal waits in its shutdown channel.
InFlightDeliveredWitness ==
    \E wi \in DOMAIN w :
       /\ w[wi].st = "sending"
       /\ quit[wchan[wi].quit] > 0

(***************************************************************************)
(* Ways of starting a SplitParallelLoop pool.  "benchmark": the channels   *)
(* are made and every worker is started on the result channel the call is  *)
(* given (BenchmarkConcur1).  "example": Example's pool, cpus =             *)
(* len(secret) / (NumCPU + 10) workers on the elements of                  *)
(* make([]chan Input, cpus) and make([]chan bool, cpus), which are nil     *)
(* channels, and cpus passed as the chunk size too.  "other": the workers  *)
(* are started on a result channel that is not the one the call is given.  *)
(***************************************************************************)
otherRet == 1

ExampleLen == 17     \* len("well hello there!")

ExampleCPUs == {1, 8}

Starts == {"benchmark", "example", "other"}

startChans(how, v, size) ==
    CASE how = "example" ->
           [j \in 1 .. size |-> [quit |-> j, ret |-> callRet, made |-> FALSE]]
      [] how = "other" ->
           [j \in 1 .. size |-> [quit |-> j, ret |-> otherRet, made |-> TRUE]]
      [] OTHER -> poolChans(v, size)

InitStart ==
    \E how \in Starts :
       /\ n \in 2 .. MaxN
       /\ k \in 2 .. MaxK
       /\ n >= k
       /\ \E l \in IF how = "example" THEN {ExampleLen} ELSE 0 .. MaxLen :
             secret = secretStream(l)
       /\ fn \in IF how = "benchmark" THEN Pooled ELSE {"SplitParallel"}
       /\ ncpu \in IF how = "example" THEN ExampleCPUs ELSE {1}
       /\ cpus \in IF how = "example" THEN {Len(secret) \div chunkSize}
                   ELSE CpusFor(fn)
       /\ LET size == IF how = "example" THEN cpus
                      ELSE PoolSize(fn, n, secret, cpus)
          IN  /\ w = [j \in 1 .. size |-> Idle]
              /\ sendq = [j \in 1 .. size |-> <<>>]
              /\ wchan = startChans(how, fn, size)
              /\ quit = poolQuit(fn, size)
       /\ tape = poolStream(4 * MaxK * ExampleLen)
       /\ rpos = 0
       /\ closed = FALSE
       /\ pc = "entry"
       /\ i = 0
       /\ x = 0
       /\ buf = <<>>
       /\ p = <<>>
       /\ shares = EmptyMap
       /\ count = 0
       /\ ret = NoRet
       /\ ref = NoRet
       /\ cshares = EmptyMap
       /\ ci = 0
       /\ recovered = <<>>
       /\ newShares = <<>>
       /\ indices = <<>>
       /\ psecret = <<>>
       /\ gor = {}
       /\ units = <<>>
       /\ placed = <<>>

SpecStart == InitStart /\ [][NextPool]_vars

\* The pool is the one Example builds.
examplePool ==
    /\ fn = "SplitParallel"
    /\ cpus = Len(secret) \div chunkSize
    /\ Len(w) = cpus
    /\ \A j \in DOMAIN w : ~wchan[j].made

\* The dispatcher is at a send on a nil channel.
sendOnNil ==
    /\ pc = "sp_dispatch"
    /\ i < Len(secret)
    /\ count + 1 \in DOMAIN wchan
    /\ ~wchan[count + 1].made

\* C27: on the pool Example builds, the call of SplitParallel with chunk
\* size c = len(secret) div P neither indexes past the queue array nor
\* stands at a send that can never complete, it hands out no more than c
\* chunks, and once the signals are sent every worker has exited.
ExampleCallReturns ==
    examplePool =>
       /\ pc # "panic"
       /\ ~sendOnNil
       /\ Len(units) <= cpus
       /\ pc = "q_done" => exited = DOMAIN w

\* C28: a SplitParallelLoop worker offers the result of an Input on the
\* channel the Input carries in Ret, the channel the call receives from,
\* whichever result channel the worker was started on.
ResultOnInputRet ==
    fn = "SplitParallel" =>
       \A wi \in DOMAIN w :
          w[wi].st = "sending" => wchan[wi].ret = callRet

\* The pool has the workers the call needs, and the chunk size is positive.
poolFits ==
    /\ fn \in Pooled
    /\ fn = "SplitParallel" => cpus >= 1
    /\ Len(w) >= PoolSize(fn, n, secret, cpus)
    /\ \A j \in DOMAIN w : wchan[j].made

\* C26: a pooled split on a pool that fits, with arguments the variant
\* accepts and no shutdown signalled, returns: the call does not die on
\* the way, and it never makes a share for the ID 0, which it does only in
\* a share loop that has lost its end.
PooledSplitReturns ==
    (poolFits /\ checkParams(n, k) = "nil") =>
        /\ pc # "panic"
        /\ pc \in {"sp_make", "sp_recv"} => 0 \notin DOMAIN shares

(***************************************************************************)
(* eval and Compute called on their own: the coefficients and the point    *)
(* are drawn from bounded sets, the call stores what the function returns. *)
(***************************************************************************)
MaxDeg == 2      \* polynomials of 0..MaxDeg+1 coefficients

CoefBytes == {0, 1, 2, 83, ByteMax}

RowBytes == {3, ByteMax}

PointBytes == {0, 1, 2, 141, ByteMax}

InitEval ==
    /\ fn \in {"eval", "Compute"}
    /\ IF fn = "eval"
       THEN /\ k = 0
            /\ secret = <<>>
            /\ x \in Byte
            /\ \E d \in 0 .. (MaxDeg + 1) : p \in [1 .. d -> CoefBytes]
       ELSE /\ k \in 1 .. MaxK
            /\ \E l \in 0 .. MaxLen : secret = secretStream(l)
            /\ x \in PointBytes
            /\ p \in [1 .. (Len(secret) * k) -> RowBytes]
    /\ n = 0
    /\ cpus = 0
    /\ tape = <<>>
    /\ rpos = 0
    /\ closed = FALSE
    /\ pc = "entry"
    /\ i = 0
    /\ buf = <<>>
    /\ shares = EmptyMap
    /\ count = 0
    /\ w = <<>>
    /\ sendq = <<>>
    /\ wchan = <<>>
    /\ quit = <<>>
    /\ ret = NoRet
    /\ ref = NoRet
    /\ cshares = EmptyMap
    /\ ci = 0
    /\ recovered = <<>>
    /\ ncpu = 1
    /\ newShares = <<>>
    /\ indices = <<>>
    /\ psecret = <<>>
    /\ gor = {}
    /\ units = <<>>
    /\ placed = <<>>

\* result := eval(p, x)
EvalCall ==
    /\ pc = "entry"
    /\ fn = "eval"
    /\ ret' = eval(p, x)
    /\ pc' = "returned"
    /\ UNCHANGED <<args, ctl, reader, fn, locals, pool, ref, comb>>

\* share := Compute(len(secret), k, x, p)
ComputeCall ==
    /\ pc = "entry"
    /\ fn = "Compute"
    /\ ret' = Compute(Len(secret), k, x, p)
    /\ pc' = "returned"
    /\ UNCHANGED <<args, ctl, reader, fn, locals, pool, ref, comb>>

NextEval == EvalCall \/ ComputeCall

SpecEval == InitEval /\ [][NextEval]_vars

\* a^e in the field, a^0 = 1.
RECURSIVE gfPow(_, _)
gfPow(a, e) == IF e = 0 THEN 1 ELSE mul(a, gfPow(a, e - 1))

\* The XOR over j >= from of q[j] times a^(j-1): the value at a of the
\* polynomial whose coefficient of a^(j-1) is q[j].
RECURSIVE polySum(_, _, _)
polySum(q, a, from) ==
    IF from > Len(q) THEN 0
    ELSE xor(mul(q[from], gfPow(a, from - 1)), polySum(q, a, from + 1))

\* Row j of the flat coefficients, k bytes.
flatRow(flat, kk, j) == SubSeq(flat, (j - 1) * kk + 1, (j - 1) * kk + kk)

\* C31: eval returns the value of the polynomial, the XOR over i of p[i]
\* times x^i; at the point 0 that is the constant term p[0]; and byte i of
\* what Compute returns is eval of the k coefficients from i*k on, one byte
\* per byte of the secret.
EvalIsPolynomialValue ==
    pc = "returned" =>
       /\ fn = "eval" =>
             /\ ret = polySum(p, x, 1)
             /\ (x = 0 /\ p # <<>>) => ret = p[1]
       /\ fn = "Compute" =>
             /\ Len(ret) = Len(secret)
             /\ \A j \in 1 .. Len(secret) :
                   /\ ret[j] = eval(flatRow(p, k, j), x)
                   /\ ret[j] = polySum(flatRow(p, k, j), x, 1)

\* eval has returned the value of a polynomial of degree MaxDeg, with no
\* zero coefficient and no two equal, at a point other than 0 and 1.
EvalIsPolynomialValueWitness ==
    /\ pc = "returned"
    /\ fn = "eval"
    /\ Len(p) = MaxDeg + 1
    /\ x \notin {0, 1}
    /\ \A j \in DOMAIN p : p[j] # 0
    /\ p[1] # p[Len(p)]
    /\ ret = polySum(p, x, 1)

====
